---- MODULE Spec2Model ----
(***************************************************************************)
(* State-machine model of mnist_mlp_eager.py: the start-up code that       *)
(* creates the checkpoint directory, the command-line dispatch, train()    *)
(* with its per-epoch train and validate phases, save_weights, and         *)
(* inference() with load_weights and predict.  The file system persists    *)
(* across invocations of the program; everything else is per process.      *)
(*                                                                         *)
(* Numerical values are abstract: a parameter set is the record of what    *)
(* determines it (random initial values, number of optimisation steps,     *)
(* number of running-statistics updates, the dropout masks it absorbed),   *)
(* and a forward pass returns the record of everything its result depends  *)
(* on.                                                                     *)
(***************************************************************************)
EXTENDS Integers, Sequences, FiniteSets, TLC

\* ---- program constants -------------------------------------------------
BATCH_SIZE == 32
NUM_CLASS == 10
NUM_EPOCHS == 5
TRAIN_SIZE == 60000
VALID_SIZE == 10000
INPUT_WIDTH == 784

\* ---- bounds of the model -----------------------------------------------
\* number of invocations of the program in one behaviour
MaxRuns == 2

\* a dropout mask keeps (0) or drops (1) the observed unit
Masks == {0, 1}
\* two representative draws of the random initial parameter values
Inits == {0, 1}

Min(a, b) == IF a < b THEN a ELSE b

\* ---- the environment: image files on disk ------------------------------
NoPath == "None"
ImagePaths == {NoPath, "missing.jpg", "garbage.jpg", "wide.jpg", "seven.jpg", "three.jpg"}

\* os.path.exists on an image path that is a string
ImageExists(path) == path \in {"garbage.jpg", "wide.jpg", "seven.jpg", "three.jpg"}

NoImage == [pixels |-> 0, id |-> 0]

\* cv2.imread(filepath, 0): None when the file cannot be decoded, else the
\* grayscale pixel grid (its number of pixels and its content)
imread(path) ==
    CASE path = "seven.jpg" -> [pixels |-> 784, id |-> 7]
      [] path = "three.jpg" -> [pixels |-> 784, id |-> 3]
      [] path = "wide.jpg"  -> [pixels |-> 1024, id |-> 5]
      [] OTHER              -> NoImage

\* ---- model parameters ---------------------------------------------------
NoModel == [init |-> -1, steps |-> -1, stat |-> -1, mix |-> -1]
NoStore == NoModel

\* MLP(): freshly constructed container with random initial values
MLP(init) == [init |-> init, steps |-> 0, stat |-> 0, mix |-> 0]

\* number of batches of a split of n samples, ceil(n / BATCH_SIZE)
CeilDiv(n, b) == (n + b - 1) \div b

\* parameters a completed earlier training run left on disk
TrainedParams ==
    { [init |-> i, steps |-> NUM_EPOCHS * CeilDiv(TRAIN_SIZE, BATCH_SIZE),
       stat |-> NUM_EPOCHS * CeilDiv(TRAIN_SIZE, BATCH_SIZE), mix |-> m] :
      i \in Inits, m \in Masks }

\* MLP.call with the mode flag ignored: every forward pass in training mode
call_always_training(m, x, training, mask) ==
    [out   |-> [init |-> m.init, steps |-> m.steps, mix |-> m.mix,
                stat |-> 0, x |-> x, mask |-> mask],
     model |-> [m EXCEPT !.stat = @ + 1]]

\* MLP.call: the forward pass.  In training mode the normalisation uses the
\* statistics of the batch, updates the running statistics and applies the
\* dropout mask; in inference mode it uses the running statistics and no
\* dropout, and changes nothing.
call(m, x, training, mask) ==
    [out   |-> [init |-> m.init, steps |-> m.steps, mix |-> m.mix,
                stat |-> IF training THEN 0 ELSE m.stat,
                x    |-> x,
                mask |-> IF training THEN mask ELSE 0],
     model |-> IF training THEN [m EXCEPT !.stat = @ + 1] ELSE m]

\* tape.gradient + optimizer.apply_gradients: one optimisation step; the new
\* weights depend on the forward result, hence on the dropout mask
apply_gradients(m, out) ==
    [m EXCEPT !.steps = @ + 1, !.mix = (@ + out.mask) % Cardinality(Masks)]

\* predict running the forward pass with call's default, training=True
predict_training(m, x, mask) == call(m, x, TRUE, mask).out

\* model.predict(image): one forward pass in inference mode
predict(m, x, mask) == call(m, x, FALSE, mask).out

\* probs.argmax() and 100 * probs.max()
Digest(probs) == probs.init + probs.steps + probs.mix + probs.stat + probs.x + 3 * probs.mask
argmax(probs) == Digest(probs) % NUM_CLASS
maxprob(probs) == 100 - (Digest(probs) % 7)

\* model.save_weights(MODEL_FILE): all parameters, running statistics included
save_weights(m) == m

\* load_weights that leaves the container's initial values in place
load_weights_keep_init(m, store) == [store EXCEPT !.init = m.init]

\* model.load_weights(MODEL_FILE): every parameter replaced by the stored one
load_weights(m, store) == store

\* ---- metric accumulators -------------------------------------------------
ZeroMetric == [count |-> 0, epochs |-> {}]

\* reset_states that keeps the accumulated state
reset_states_keep(acc) == acc

\* metric.reset_states()
reset_states(acc) == ZeroMetric

\* metric(value): accumulate weight w during epoch e
update_state(acc, w, e) == [count |-> acc.count + w, epochs |-> acc.epochs \cup {e}]

\* ---- batching ------------------------------------------------------------
NoBatch == [lo |-> 0, hi |-> 0]
NoIter == [pos |-> 0, idx |-> 0, batch |-> NoBatch]

\* batching that drops a shorter final batch
next_batch_drop_remainder(pos, n) ==
    IF pos + BATCH_SIZE <= n THEN [lo |-> pos + 1, hi |-> pos + BATCH_SIZE] ELSE NoBatch

\* Dataset.batch(BATCH_SIZE) iteration: the batch after pos consumed samples
\* of a split of n, or NoBatch when the split is exhausted
next_batch(pos, n) ==
    IF pos < n THEN [lo |-> pos + 1, hi |-> Min(pos + BATCH_SIZE, n)] ELSE NoBatch

BatchLen(b) == b.hi - b.lo + 1

\* a loop bound that is off by one
range_has_next_inclusive(done) == done <= NUM_EPOCHS

\* for epoch in range(NUM_EPOCHS): another iteration after `done` epochs?
range_has_next(done) == done < NUM_EPOCHS

VARIABLES
    fs,            \* file system: directories and the persisted parameter store
    runs,          \* number of invocations of the program so far
    args,          \* parsed command line of the current invocation
    pc,            \* position of the current invocation
    err,           \* the error that ended the invocation, or "none"
    model,         \* the in-process model container
    epoch,         \* epochs started in train()
    it,            \* the batch iterator of the current phase
    train_loss, train_accuracy, test_loss, test_accuracy,
    image,         \* the decoded image in inference()
    trace,         \* history: what the current invocation has done
    storeAtStart,  \* history: the store when the invocation started
    trainings,     \* history: completed save_weights calls so far
    results        \* history: what inference printed

vars == <<fs, runs, args, pc, err, model, epoch, it, train_loss, train_accuracy,
          test_loss, test_accuracy, image, trace, storeAtStart, trainings, results>>

mem == <<model, epoch, it, train_loss, train_accuracy, test_loss, test_accuracy, image>>
metrics == <<train_loss, train_accuracy, test_loss, test_accuracy>>

NoTrace == [constructed |-> FALSE, loaded |-> FALSE, forward |-> FALSE, saves |-> 0]

\* command lines: train never reads image_path, so train is started without it
Args == [procedure : {"inference"}, image_path : ImagePaths]
        \cup [procedure : {"train"}, image_path : {NoPath}]

\* file systems the program can find: no 'models' directory, 'models' only,
\* the checkpoint directory without a store, or with one from earlier training
InitialFs ==
    { [models |-> FALSE, ckptdir |-> FALSE, store |-> NoStore],
      [models |-> TRUE, ckptdir |-> FALSE, store |-> NoStore],
      [models |-> TRUE, ckptdir |-> TRUE, store |-> NoStore] }
    \cup { [models |-> TRUE, ckptdir |-> TRUE, store |-> s] : s \in TrainedParams }

\* process memory of a fresh (or dead) process
FreshMem ==
    /\ model' = NoModel
    /\ epoch' = 0
    /\ it' = NoIter
    /\ train_loss' = ZeroMetric
    /\ train_accuracy' = ZeroMetric
    /\ test_loss' = ZeroMetric
    /\ test_accuracy' = ZeroMetric
    /\ image' = NoImage

Init ==
    /\ fs \in InitialFs
    /\ runs = 1
    /\ args \in Args
    /\ pc = "start"
    /\ err = "none"
    /\ model = NoModel
    /\ epoch = 0
    /\ it = NoIter
    /\ train_loss = ZeroMetric
    /\ train_accuracy = ZeroMetric
    /\ test_loss = ZeroMetric
    /\ test_accuracy = ZeroMetric
    /\ image = NoImage
    /\ trace = NoTrace
    /\ storeAtStart = fs.store
    /\ trainings = 0
    /\ results = {}

\* an uncaught exception: the process ends and its memory is gone
Abort(e) ==
    /\ pc' = "failed"
    /\ err' = e
    /\ FreshMem

\* lines 21-23: create the checkpoint directory unless it exists
Startup ==
    /\ pc = "start"
    /\ IF fs.ckptdir
         THEN /\ pc' = "main"
              /\ UNCHANGED <<fs, err, mem>>
         ELSE IF fs.models
                THEN /\ fs' = [fs EXCEPT !.ckptdir = TRUE]
                     /\ pc' = "main"
                     /\ UNCHANGED <<err, mem>>
                ELSE /\ Abort("FileNotFoundError")
                     /\ UNCHANGED fs
    /\ UNCHANGED <<runs, args, trace, storeAtStart, trainings, results>>

\* lines 125-127: choose the procedure
Dispatch ==
    /\ pc = "main"
    /\ pc' = IF args.procedure = "train" THEN "load_data" ELSE "assert_model"
    /\ UNCHANGED <<fs, runs, args, err, mem, trace, storeAtStart, trainings, results>>

\* line 128: assert os.path.exists(MODEL_FILE + '.index')
AssertModelExists ==
    /\ pc = "assert_model"
    /\ IF fs.store # NoStore
         THEN /\ pc' = "assert_image"
              /\ UNCHANGED <<err, mem>>
         ELSE Abort("model not found, train a model before calling inference.")
    /\ UNCHANGED <<fs, runs, args, trace, storeAtStart, trainings, results>>

\* line 129: assert os.path.exists(args.image_path); os.path.exists(None)
\* raises TypeError
AssertImageExists ==
    /\ pc = "assert_image"
    /\ IF args.image_path = NoPath
         THEN Abort("TypeError")
         ELSE IF ImageExists(args.image_path)
                THEN /\ pc' = "inference"
                     /\ UNCHANGED <<err, mem>>
                ELSE Abort("can not find image file.")
    /\ UNCHANGED <<fs, runs, args, trace, storeAtStart, trainings, results>>

\* line 107: model = MLP()
InferenceConstruct ==
    /\ pc = "inference"
    /\ \E init \in Inits : model' = MLP(init)
    /\ trace' = [trace EXCEPT !.constructed = TRUE]
    /\ pc' = "inf_load"
    /\ UNCHANGED <<fs, runs, args, err, epoch, it, metrics, image, storeAtStart,
                   trainings, results>>

\* line 108: model.load_weights(MODEL_FILE)
InferenceLoad ==
    /\ pc = "inf_load"
    /\ model' = load_weights(model, fs.store)
    /\ trace' = [trace EXCEPT !.loaded = TRUE]
    /\ pc' = "inf_read"
    /\ UNCHANGED <<fs, runs, args, err, epoch, it, metrics, image, storeAtStart,
                   trainings, results>>

\* line 109: cv2.imread(filepath, 0).reshape(1, 784).astype('float32') / 255
InferenceRead ==
    /\ pc = "inf_read"
    /\ LET img == imread(args.image_path) IN
         IF img = NoImage
           THEN Abort("AttributeError")
           ELSE IF img.pixels # INPUT_WIDTH
                  THEN Abort("ValueError")
                  ELSE /\ image' = img
                       /\ pc' = "inf_predict"
                       /\ UNCHANGED <<err, model, epoch, it, metrics>>
    /\ UNCHANGED <<fs, runs, args, trace, storeAtStart, trainings, results>>

\* lines 110-111: probs = model.predict(image); print argmax and max
InferencePredict ==
    /\ pc = "inf_predict"
    /\ \E mask \in Masks :
         LET probs == predict(model, image.id, mask) IN
           results' = results \cup
               { [image_path |-> args.image_path, trainings |-> trainings,
                  run |-> runs, digit |-> argmax(probs), prob |-> maxprob(probs)] }
    /\ trace' = [trace EXCEPT !.forward = TRUE]
    /\ pc' = "done"
    /\ UNCHANGED <<fs, runs, args, err, mem, storeAtStart, trainings>>

\* lines 53-58: load the dataset (any failure propagates) and batch it
LoadData ==
    /\ pc = "load_data"
    /\ \/ /\ pc' = "config"
          /\ UNCHANGED <<err, mem>>
       \/ Abort("dataset error")
    /\ UNCHANGED <<fs, runs, args, trace, storeAtStart, trainings, results>>

\* lines 61-67: model, criterion, optimizer and the four metrics
ConfigModel ==
    /\ pc = "config"
    /\ \E init \in Inits : model' = MLP(init)
    /\ train_loss' = ZeroMetric
    /\ train_accuracy' = ZeroMetric
    /\ test_loss' = ZeroMetric
    /\ test_accuracy' = ZeroMetric
    /\ trace' = [trace EXCEPT !.constructed = TRUE]
    /\ pc' = "loop"
    /\ UNCHANGED <<fs, runs, args, err, epoch, it, image, storeAtStart, trainings, results>>

\* lines 70-74: next epoch; reset the train-split accumulators
EpochBegin ==
    /\ pc = "loop"
    /\ range_has_next(epoch)
    /\ epoch' = epoch + 1
    /\ train_loss' = reset_states(train_loss)
    /\ train_accuracy' = reset_states(train_accuracy)
    /\ it' = NoIter
    /\ pc' = "train"
    /\ UNCHANGED <<fs, runs, args, err, model, test_loss, test_accuracy, image, trace,
                   storeAtStart, trainings, results>>

\* lines 75-82: one training batch
TrainBatch ==
    /\ pc = "train"
    /\ next_batch(it.pos, TRAIN_SIZE) # NoBatch
    /\ LET b == next_batch(it.pos, TRAIN_SIZE) IN
         /\ it' = [pos |-> b.hi, idx |-> it.idx + 1, batch |-> b]
         /\ \E mask \in Masks :
              LET r == call(model, b.lo, TRUE, mask) IN
                model' = apply_gradients(r.model, r.out)
         /\ train_loss' = update_state(train_loss, 1, epoch)
         /\ train_accuracy' = update_state(train_accuracy, BatchLen(b), epoch)
    /\ trace' = [trace EXCEPT !.forward = TRUE]
    /\ UNCHANGED <<fs, runs, args, pc, err, epoch, test_loss, test_accuracy, image,
                   storeAtStart, trainings, results>>

\* lines 85-86: the training split is exhausted; reset the validation accumulators
ValidateBegin ==
    /\ pc = "train"
    /\ next_batch(it.pos, TRAIN_SIZE) = NoBatch
    /\ test_loss' = reset_states(test_loss)
    /\ test_accuracy' = reset_states(test_accuracy)
    /\ it' = NoIter
    /\ pc' = "validate"
    /\ UNCHANGED <<fs, runs, args, err, model, epoch, train_loss, train_accuracy, image,
                   trace, storeAtStart, trainings, results>>

\* lines 87-91: one validation batch
ValidateBatch ==
    /\ pc = "validate"
    /\ next_batch(it.pos, VALID_SIZE) # NoBatch
    /\ LET b == next_batch(it.pos, VALID_SIZE) IN
         /\ it' = [pos |-> b.hi, idx |-> it.idx + 1, batch |-> b]
         /\ \E mask \in Masks : model' = call(model, b.lo, FALSE, mask).model
         /\ test_loss' = update_state(test_loss, 1, epoch)
         /\ test_accuracy' = update_state(test_accuracy, BatchLen(b), epoch)
    /\ UNCHANGED <<fs, runs, args, pc, err, epoch, train_loss, train_accuracy, image,
                   trace, storeAtStart, trainings, results>>

\* lines 93-100: the validation split is exhausted; report and loop
EpochEnd ==
    /\ pc = "validate"
    /\ next_batch(it.pos, VALID_SIZE) = NoBatch
    /\ pc' = "loop"
    /\ UNCHANGED <<fs, runs, args, err, mem, trace, storeAtStart, trainings, results>>

\* line 102: model.save_weights(MODEL_FILE), after the last epoch
SaveWeights ==
    /\ pc = "loop"
    /\ ~range_has_next(epoch)
    /\ fs' = [fs EXCEPT !.store = save_weights(model)]
    /\ trace' = [trace EXCEPT !.saves = @ + 1]
    /\ trainings' = trainings + 1
    /\ pc' = "done"
    /\ UNCHANGED <<runs, args, err, mem, storeAtStart, results>>

\* a failure of the forward/backward computation in either phase is fatal
ComputeFault ==
    /\ pc \in {"train", "validate"}
    /\ Abort("compute error")
    /\ UNCHANGED <<fs, runs, args, trace, storeAtStart, trainings, results>>

\* the program is invoked again on the file system the last run left
NewRun ==
    /\ pc \in {"done", "failed"}
    /\ runs < MaxRuns
    /\ runs' = runs + 1
    /\ args' \in Args
    /\ pc' = "start"
    /\ err' = "none"
    /\ FreshMem
    /\ trace' = NoTrace
    /\ storeAtStart' = fs.store
    /\ UNCHANGED <<fs, trainings, results>>

Next ==
    \/ Startup
    \/ Dispatch
    \/ AssertModelExists
    \/ AssertImageExists
    \/ InferenceConstruct
    \/ InferenceLoad
    \/ InferenceRead
    \/ InferencePredict
    \/ LoadData
    \/ ConfigModel
    \/ EpochBegin
    \/ TrainBatch
    \/ ValidateBegin
    \/ ValidateBatch
    \/ EpochEnd
    \/ SaveWeights
    \/ ComputeFault
    \/ NewRun

Spec == Init /\ [][Next]_vars

\* ---- vocabulary of the properties ----------------------------------------
Terminated == pc \in {"done", "failed"}
InferenceRun == args.procedure = "inference"
TrainRun == args.procedure = "train"

MsgModelNotFound == "model not found, train a model before calling inference."
MsgImageNotFound == "can not find image file."
\* the failures the program raises itself, with a message of its own
PreconditionFailures == {MsgModelNotFound, MsgImageNotFound}

TrainBatches == CeilDiv(TRAIN_SIZE, BATCH_SIZE)
ValidBatches == CeilDiv(VALID_SIZE, BATCH_SIZE)

\* C1: an inference run that finds no persisted parameters ends in the
\* 'model not found' precondition failure, whatever the image path, and has
\* constructed no model, loaded nothing and run no forward pass.
C1_NoStoreFailsModelNotFound ==
    (InferenceRun /\ storeAtStart = NoStore /\ Terminated) =>
        /\ pc = "failed"
        /\ err = MsgModelNotFound
        /\ ~trace.constructed /\ ~trace.loaded /\ ~trace.forward

\* C2: an inference run with persisted parameters whose image path names no
\* existing file (or is not supplied) ends in the 'can not find image file.'
\* precondition failure and never enters inference().
C2_MissingImageFailsAssert ==
    (/\ InferenceRun /\ storeAtStart # NoStore /\ Terminated
     /\ (args.image_path = NoPath \/ ~ImageExists(args.image_path))) =>
        /\ pc = "failed"
        /\ err = MsgImageNotFound
        /\ ~trace.constructed /\ ~trace.forward

\* C3: an inference run with persisted parameters whose image file exists but
\* does not decode to a 784-pixel grayscale grid ends in an explicit
\* precondition failure with a descriptive message, before any forward pass.
C3_UndecodableImageFailsPrecondition ==
    (/\ InferenceRun /\ storeAtStart # NoStore /\ Terminated
     /\ args.image_path # NoPath /\ ImageExists(args.image_path)
     /\ imread(args.image_path).pixels # INPUT_WIDTH) =>
        /\ pc = "failed"
        /\ err \in PreconditionFailures
        /\ ~trace.forward

\* C4: the train accumulators are at their identity values when the first
\* training batch of an epoch is processed, the validation accumulators when
\* the first validation batch is processed, and at the end of epoch k all four
\* aggregate exactly the batches of epoch k.
C4_AccumulatorsPerEpoch ==
    /\ (pc = "train" /\ it.idx = 0) =>
           (train_loss = ZeroMetric /\ train_accuracy = ZeroMetric)
    /\ (pc = "validate" /\ it.idx = 0) =>
           (test_loss = ZeroMetric /\ test_accuracy = ZeroMetric)
    /\ (pc = "train" /\ it.idx > 0) =>
           (train_loss.count = it.idx /\ train_loss.epochs = {epoch}
            /\ train_accuracy.count = it.pos /\ train_accuracy.epochs = {epoch})
    /\ (pc = "validate" /\ it.idx > 0) =>
           (test_loss.count = it.idx /\ test_loss.epochs = {epoch}
            /\ test_accuracy.count = it.pos /\ test_accuracy.epochs = {epoch})
    /\ (pc = "loop" /\ epoch >= 1) =>
           /\ train_loss = [count |-> TrainBatches, epochs |-> {epoch}]
           /\ train_accuracy = [count |-> TRAIN_SIZE, epochs |-> {epoch}]
           /\ test_loss = [count |-> ValidBatches, epochs |-> {epoch}]
           /\ test_accuracy = [count |-> VALID_SIZE, epochs |-> {epoch}]

\* the end of the second epoch: the resets had earlier contents to discard
C4_Witness ==
    /\ pc = "loop" /\ epoch = 2
    /\ train_loss.count = TrainBatches /\ test_loss.count = ValidBatches

\* C5: a validation batch leaves the model parameters, running statistics
\* included, unchanged; optimisation steps happen only in the train phase,
\* exactly one per training batch.
C5_StepCount ==
    /\ (pc = "train") =>
           /\ model.steps = (epoch - 1) * TrainBatches + it.idx
           /\ model.stat = model.steps
    /\ (pc = "validate" \/ (pc = "loop" /\ epoch >= 1)) =>
           /\ model.steps = epoch * TrainBatches
           /\ model.stat = model.steps

C5_ValidationStep ==
    (pc = "validate" /\ pc' # "failed") => model' = model

\* C5: the step count holds in every state and every validation step leaves
\* the model as it was.
C5_ValidationLeavesParameters ==
    [](C5_StepCount) /\ [][C5_ValidationStep]_vars

\* the last validation batch of an epoch has been processed
C5_Witness ==
    /\ pc = "validate" /\ it.idx = ValidBatches
    /\ model.steps = epoch * TrainBatches

\* C6: a split of n samples is iterated as ceil(n / BATCH_SIZE) batches in
\* sample order, each of BATCH_SIZE samples except possibly a shorter last
\* one, so that a train phase processes each of the 60000 training samples
\* once, in 1875 batches.
C6_BatchK(n) ==
    it.idx > 0 =>
        /\ it.batch.lo = (it.idx - 1) * BATCH_SIZE + 1
        /\ it.batch.hi = Min(it.idx * BATCH_SIZE, n)
        /\ it.pos = it.batch.hi
        /\ it.idx <= CeilDiv(n, BATCH_SIZE)
        /\ (BatchLen(it.batch) = BATCH_SIZE
            \/ (it.batch.hi = n /\ BatchLen(it.batch) \in 1..BATCH_SIZE))

C6_BatchingPartitions ==
    /\ pc = "train" => C6_BatchK(TRAIN_SIZE)
    /\ pc = "validate" => C6_BatchK(VALID_SIZE)
    /\ (pc = "validate" \/ (pc = "loop" /\ epoch >= 1)) =>
           /\ train_loss.count = 1875
           /\ train_loss.count = CeilDiv(TRAIN_SIZE, BATCH_SIZE)
           /\ train_accuracy.count = TRAIN_SIZE
           /\ model.steps = epoch * 1875
    /\ (pc = "loop" /\ epoch >= 1) =>
           /\ test_loss.count = CeilDiv(VALID_SIZE, BATCH_SIZE)
           /\ test_accuracy.count = VALID_SIZE

\* the validation split ends in a shorter batch, after a full train phase
C6_Witness ==
    /\ pc = "validate" /\ it.pos = VALID_SIZE
    /\ BatchLen(it.batch) < BATCH_SIZE
    /\ train_loss.count = 1875

\* C7: when train() has completed, the store exists and holds the parameters
\* of the end of the final epoch; inference's load into a fresh container
\* yields exactly the stored parameters.
C7_SaveLoadRoundTrip ==
    /\ (TrainRun /\ pc = "done") =>
           /\ fs.store # NoStore
           /\ fs.store = model
           /\ fs.store.steps = NUM_EPOCHS * TrainBatches
           /\ fs.store.stat = NUM_EPOCHS * TrainBatches
    /\ (InferenceRun /\ trace.loaded /\ pc # "failed") =>
           /\ model = fs.store
           /\ model.steps = NUM_EPOCHS * TrainBatches
           /\ model.stat = NUM_EPOCHS * TrainBatches

\* a training run followed by an inference run that has loaded its result
C7_Witness ==
    /\ runs = 2 /\ trainings = 1
    /\ InferenceRun /\ trace.loaded /\ pc = "inf_predict"

\* C8: two inference runs on the same image with no training in between
\* print the same class and the same confidence.
C8_InferenceDeterministic ==
    \A r1 \in results, r2 \in results :
        (r1.image_path = r2.image_path /\ r1.trainings = r2.trainings) =>
            (r1.digit = r2.digit /\ r1.prob = r2.prob)

\* two runs have classified the same image under the same parameters
C8_Witness ==
    \E r1 \in results, r2 \in results :
        /\ r1.run # r2.run
        /\ r1.image_path = r2.image_path
        /\ r1.trainings = r2.trainings

\* C9: train() runs exactly NUM_EPOCHS epochs; the train phase of an epoch is
\* complete before its validate phase, which is complete before the next
\* epoch; the store is written once, after the last validate phase, and the
\* run then ends; until then the store is as the run found it.
C9_Order ==
    /\ epoch \in 0..NUM_EPOCHS
    /\ pc = "validate" => train_loss = [count |-> TrainBatches, epochs |-> {epoch}]
    /\ (pc = "train" /\ epoch > 1) =>
           test_loss = [count |-> ValidBatches, epochs |-> {epoch - 1}]
    /\ trace.saves \in {0, 1}
    /\ trace.saves = 0 => fs.store = storeAtStart
    /\ trace.saves = 1 => (TrainRun /\ pc = "done")
    /\ (TrainRun /\ pc = "done") =>
           /\ epoch = NUM_EPOCHS
           /\ trace.saves = 1
           /\ test_loss = [count |-> ValidBatches, epochs |-> {NUM_EPOCHS}]

C9_LastStep ==
    /\ (pc = "loop" /\ epoch = NUM_EPOCHS) => (pc' = "done" /\ trace'.saves = 1)
    /\ fs'.store # fs.store => (pc = "loop" /\ epoch = NUM_EPOCHS)

\* C9: the order holds in every state, the store is written only by the step
\* that leaves the loop after the last epoch, and that step ends the run.
C9_EpochsThenSaveOnce ==
    [](C9_Order) /\ [][C9_LastStep]_vars

\* a completed training run that replaced an earlier store
C9_Witness ==
    /\ TrainRun /\ pc = "done" /\ epoch = NUM_EPOCHS
    /\ storeAtStart # NoStore /\ trace.saves = 1

\* C10: after start-up the checkpoint directory exists and start-up has not
\* failed, whatever the file system was.
C10_StartupEnsuresDirectory ==
    pc # "start" =>
        /\ fs.ckptdir
        /\ ~(pc = "failed" /\ err = "FileNotFoundError")
====
